---- MODULE Spec2Model ----
(***************************************************************************)
(* Multi-camera threat tracking: the GlobalTracker registry, the ZeroMQ    *)
(* CommunicationBroker, the CameraNode threads and the orchestrator's      *)
(* tracker loop, modelled as state machines.                               *)
(*                                                                         *)
(* Python dicts are functions whose DOMAIN is the set of keys present, so  *)
(* alert.get("k") and alert["k"] (KeyError) are told apart by DOMAIN.      *)
(***************************************************************************)
EXTENDS Integers, Sequences, FiniteSets, TLC

(***************************************************************************)
(* Bounds of the explored inputs.                                          *)
(***************************************************************************)
MaxCalls == 3

(***************************************************************************)
(* Python values.  A sequence-like value keeps its Python type, so that    *)
(* JSON encoding (tuple -> array -> list, ndarray -> TypeError) can be     *)
(* told from the identity.                                                 *)
(***************************************************************************)
PyList(x)  == [py |-> "list", items |-> x]
PyTuple(x) == [py |-> "tuple", items |-> x]
NdArray(x) == [py |-> "ndarray", items |-> x]
\* None, where a sequence-like value is expected (alert.get("location")).
PyNone == [py |-> "None", items |-> <<>>]
\* None, where a string is expected (Optional[str]).
None == "None"

\* for i in range(2): CameraNode(f"camera_{i}", ...)
NumCameras == 2
CameraName(i) == "camera_" \o ToString(i)
CameraIds == {CameraName(i) : i \in 0 .. NumCameras - 1}
Timestamps == {100, 101}
\* What the tracker is handed after JSON decoding: lists.
Locations == {PyList(<<1, 2, 3, 4>>)}
Signatures == {PyList(<<1, 0>>), PyList(<<0, 1>>)}

VARIABLES
    tracker,    \* GlobalTracker: [targets |-> dict, next_id |-> int]
    returned,   \* ids returned by register_new_threat, in call order
    calls,      \* the calls made on the GlobalTracker so far, in order
    trajectory, \* what the last get_target_trajectory call returned
    broker,     \* CommunicationBroker: the SUB sockets connected to its PUB socket
    clock,      \* time.time()
    published,  \* the alerts handed to _broadcast so far, as a subscriber decodes them
    subscribedAt, \* per SUB socket: Len(published) when subscribe() returned
    received,   \* per SUB socket: the alerts its drain() calls returned so far
    sinceDrain, \* per SUB socket: drained yet; a publish, an arrival since its last drain()
    main,       \* orchestrator.main: where it is, and the camera it is at
    cams,       \* per camera id: the CameraNode thread and its fields
    trk,        \* the GlobalTrackerLoop thread of start_tracker_loop
    raced,      \* the threads inside send_json whose send overlapped another thread's
    aborted     \* libzmq has aborted the process

trackerVars == <<tracker, returned, calls, trajectory>>
brokerVars == <<broker, clock>>
brokerLog == <<published, subscribedAt, received, sinceDrain>>

sysVars == <<main, cams, trk, raced, aborted>>

vars == <<trackerVars, brokerVars, brokerLog, sysVars>>

(***************************************************************************)
(* global_tracker.py                                                       *)
(***************************************************************************)

\* f"T{self._next_id}"
FormatId(n) == "T" \o ToString(n)

\* TargetState(global_id=..., current_camera=...): history defaults to [].
TargetState(global_id, current_camera) ==
    [global_id |-> global_id, history |-> <<>>, current_camera |-> current_camera]

\* dict item assignment d[k] = v
DictSet(d, k, v) == [x \in DOMAIN d \cup {k} |-> IF x = k THEN v ELSE d[x]]

\* GlobalTracker.__init__
GlobalTrackerInit == [targets |-> <<>>, next_id |-> 0]

\* A register_new_threat that forgets to advance the counter.
register_new_threat_NoIncrement(tr, camera_id, signature, timestamp) ==
    LET global_id == FormatId(tr.next_id)
        state     == [TargetState(global_id, camera_id) EXCEPT
                        !.history = Append(@, [camera_id |-> camera_id,
                                               timestamp |-> timestamp])]
    IN  [tracker |-> [targets |-> DictSet(tr.targets, global_id, state),
                      next_id |-> tr.next_id],
         result  |-> global_id]

\* A register_new_threat that stores the TargetState without its first
\* history entry.
register_new_threat_NoHistory(tr, camera_id, signature, timestamp) ==
    [tracker |-> [targets |-> DictSet(tr.targets, FormatId(tr.next_id),
                                      TargetState(FormatId(tr.next_id), camera_id)),
                  next_id |-> tr.next_id + 1],
     result  |-> FormatId(tr.next_id)]

\* A register_new_threat that returns the id without storing the TargetState.
register_new_threat_NoStore(tr, camera_id, signature, timestamp) ==
    [tracker |-> [tr EXCEPT !.next_id = @ + 1],
     result  |-> FormatId(tr.next_id)]

\* GlobalTracker.register_new_threat: the tracker afterwards and the id returned.
register_new_threat(tr, camera_id, signature, timestamp) ==
    LET global_id == FormatId(tr.next_id)
        state     == [TargetState(global_id, camera_id) EXCEPT
                        !.history = Append(@, [camera_id |-> camera_id,
                                               timestamp |-> timestamp])]
    IN  [tracker |-> [targets |-> DictSet(tr.targets, global_id, state),
                      next_id |-> tr.next_id + 1],
         result  |-> global_id]

\* A handle_reid_match that appends to the history and leaves current_camera.
handle_reid_match_KeepsCamera(tr, global_id, camera_id, location, timestamp) ==
    LET state == IF global_id \in DOMAIN tr.targets
                 THEN tr.targets[global_id]
                 ELSE TargetState(global_id, None)
        upd   == [state EXCEPT
                    !.history = Append(@, [camera_id |-> camera_id,
                                           location |-> location,
                                           timestamp |-> timestamp])]
    IN  [tr EXCEPT !.targets = DictSet(tr.targets, global_id, upd)]

\* A handle_reid_match that drops the match of an id it does not know.
handle_reid_match_DropUnknown(tr, global_id, camera_id, location, timestamp) ==
    IF global_id \notin DOMAIN tr.targets THEN tr
    ELSE [tr EXCEPT !.targets[global_id] =
            [@ EXCEPT !.current_camera = camera_id,
                      !.history = Append(@, [camera_id |-> camera_id,
                                             location |-> location,
                                             timestamp |-> timestamp])]]

\* GlobalTracker.handle_reid_match: the tracker afterwards.
handle_reid_match(tr, global_id, camera_id, location, timestamp) ==
    LET state == IF global_id \in DOMAIN tr.targets
                 THEN tr.targets[global_id]
                 ELSE TargetState(global_id, None)
        upd   == [state EXCEPT
                    !.current_camera = camera_id,
                    !.history = Append(@, [camera_id |-> camera_id,
                                           location |-> location,
                                           timestamp |-> timestamp])]
    IN  [tr EXCEPT !.targets = DictSet(tr.targets, global_id, upd)]

\* A get_target_trajectory that looks the id up with setdefault.
get_target_trajectory_SetDefault(tr, global_id) ==
    LET state == IF global_id \in DOMAIN tr.targets
                 THEN tr.targets[global_id]
                 ELSE TargetState(global_id, None)
    IN  [tracker |-> [tr EXCEPT !.targets = DictSet(tr.targets, global_id, state)],
         result  |-> state.history]

\* GlobalTracker.get_target_trajectory: the tracker afterwards and the list returned.
get_target_trajectory(tr, global_id) ==
    [tracker |-> tr,
     result  |-> IF global_id \in DOMAIN tr.targets
                 THEN tr.targets[global_id].history
                 ELSE <<>>]

(***************************************************************************)
(* communication_broker.py                                                 *)
(*                                                                         *)
(* The broker binds one ZeroMQ PUB socket; subscribe() creates a SUB       *)
(* socket and starts connecting it.  What the code relies on of ZeroMQ:    *)
(*   - connect() returns at once and the connection (with the SUBSCRIBE    *)
(*     filter) is made in the background; the PUB socket sends a message   *)
(*     only to the subscribers it knows at the time of the send, and       *)
(*     drops it for the others;                                            *)
(*   - a sent message travels to the SUB socket in the background and is   *)
(*     receivable only once it has arrived in that socket's queue;         *)
(*   - recv(NOBLOCK) raises zmq.Again when that queue is empty.            *)
(* The sockets' high-water marks (1000 messages) are above every bound     *)
(* explored here.                                                          *)
(***************************************************************************)

\* The fields of an alert that hold sequence-like values.
SeqFields == {"signature", "location"}

\* json.dumps raises TypeError on a numpy array.
JsonSerializable(alert) ==
    \A k \in DOMAIN alert \cap SeqFields : alert[k].py # "ndarray"

\* json.dumps: lists and tuples become arrays, None becomes null.
JsonEncode(alert) ==
    [k \in DOMAIN alert |->
        IF k \in SeqFields
        THEN IF alert[k].py = "None"
             THEN [py |-> "json_null", items |-> <<>>]
             ELSE [py |-> "json_array", items |-> alert[k].items]
        ELSE alert[k]]

\* json.loads: arrays become lists, null becomes None.
JsonDecode(msg) ==
    [k \in DOMAIN msg |->
        IF k \in SeqFields
        THEN IF msg[k].py = "json_null" THEN PyNone ELSE PyList(msg[k].items)
        ELSE msg[k]]

DecodeAll(msgs) == [i \in 1 .. Len(msgs) |-> JsonDecode(msgs[i])]

\* CommunicationBroker.__init__: the PUB socket is bound, nobody is connected.
CommunicationBrokerInit == [sockets |-> <<>>]

\* context.socket(zmq.SUB): not yet known to the PUB socket, nothing queued.
\* wire: sent to this subscriber, still on its way; queue: arrived, receivable.
NewSubSocket == [connected |-> FALSE, wire |-> <<>>, queue |-> <<>>]

\* CommunicationBroker.subscribe: the broker afterwards and the socket returned.
subscribe(b) ==
    [broker |-> [b EXCEPT !.sockets = Append(@, NewSubSocket)],
     result |-> Len(b.sockets) + 1]

\* The background completion of sub.connect() and of the SUBSCRIBE filter.
connect(b, s) == [b EXCEPT !.sockets[s].connected = TRUE]

\* CommunicationBroker.publish_threat_alert: the alert it builds.
publish_threat_alert(camera_id, signature, timestamp) ==
    [type |-> "NEW_THREAT", camera_id |-> camera_id,
     signature |-> signature, timestamp |-> timestamp]

\* CommunicationBroker.publish_id_assignment: the alert it builds.
publish_id_assignment(global_id, camera_id, signature, timestamp) ==
    [type |-> "GLOBAL_ID_ASSIGN", global_id |-> global_id, camera_id |-> camera_id,
     signature |-> signature, timestamp |-> timestamp]

\* CommunicationBroker.publish_reid_match: the alert it builds.
publish_reid_match(global_id, camera_id, location, timestamp) ==
    [type |-> "REID_MATCH", global_id |-> global_id, camera_id |-> camera_id,
     location |-> location, timestamp |-> timestamp]

\* CommunicationBroker._broadcast of a serializable alert: the PUB socket
\* hands one copy to each subscriber it knows.
broadcast(b, alert) ==
    [b EXCEPT !.sockets =
        [s \in DOMAIN b.sockets |->
            IF b.sockets[s].connected
            THEN [b.sockets[s] EXCEPT !.wire = Append(@, JsonEncode(alert))]
            ELSE b.sockets[s]]]

\* The background arrival of the oldest message on its way to socket s.
deliver(b, s) ==
    [b EXCEPT !.sockets[s].wire = Tail(@),
              !.sockets[s].queue = Append(@, Head(b.sockets[s].wire))]

\* The background arrival of the k oldest messages on their way to socket s.
arrive(b, s, k) ==
    [b EXCEPT !.sockets[s].wire = SubSeq(@, k + 1, Len(@)),
              !.sockets[s].queue = @ \o SubSeq(b.sockets[s].wire, 1, k)]

\* A drain with "if" for "while": one recv_json(NOBLOCK) at most.
drain_RecvOnce(b, s) ==
    IF b.sockets[s].queue = <<>>
    THEN [broker |-> b, result |-> <<>>]
    ELSE [broker |-> [b EXCEPT !.sockets[s].queue = Tail(@)],
          result |-> <<JsonDecode(Head(b.sockets[s].queue))>>]

\* CommunicationBroker.drain: recv_json(NOBLOCK) until zmq.Again.  The
\* socket is read by its owning thread alone, and an arrival during the
\* loop is an arrival before it, so the loop is one step.
drain(b, s) ==
    [broker |-> [b EXCEPT !.sockets[s].queue = <<>>],
     result |-> DecodeAll(b.sockets[s].queue)]

(***************************************************************************)
(* The PUB socket under concurrent use.  _broadcast takes no lock and a    *)
(* ZeroMQ socket is not thread-safe, so send_json is a region a thread     *)
(* enters and leaves in two steps.  A send that overlapped another         *)
(* thread's send is a data race on the socket: the message goes out, or    *)
(* is lost, or libzmq aborts the process.                                  *)
(***************************************************************************)
SendPcs == {"send_threat", "send_reid", "send_assign"}

\* The threads inside _pub_socket.send_json.
InSend ==
    {c \in CameraIds : cams[c].pc \in SendPcs}
        \cup (IF trk.pc \in SendPcs THEN {"tracker"} ELSE {})

\* raced, once thread t has entered send_json.
EnterSend(t) == IF InSend \ {t} = {} THEN raced ELSE raced \cup InSend \cup {t}

SendOutcomes(t) == IF t \in raced THEN {"sent", "lost", "abort"} ELSE {"sent"}

\* The broker once a send_json of alert has ended with outcome o.
send_json(b, alert, o) == IF o = "sent" THEN broadcast(b, alert) ELSE b

(***************************************************************************)
(* camera_node.py                                                          *)
(***************************************************************************)
\* if similarity > 0.85, as the fraction ThresholdNum / ThresholdDen
ThresholdNum == 85
ThresholdDen == 100

Dot(a, b) == IF Len(a) = 0 THEN 0
             ELSE LET f[i \in 1 .. Len(a)] ==
                        a[i] * b[i] + (IF i = 1 THEN 0 ELSE f[i - 1])
                  IN  f[Len(a)]

\* float(np.dot(a, b) / (norm(a) * norm(b) + 1e-8)) > 0.85 on integer
\* vectors: the quotient is compared through its square (1e-8 moves no
\* quotient of integers of this size across 0.85, and makes it 0 for a
\* zero vector).
OverThreshold(a, b) ==
    /\ Dot(a, b) > 0
    /\ ThresholdDen * ThresholdDen * Dot(a, b) * Dot(a, b)
         > ThresholdNum * ThresholdNum * Dot(a, a) * Dot(b, b)

\* The indices of the buffered detections that match a signature.
Matches(detections, signature) ==
    {i \in 1 .. Len(detections) :
        OverThreshold(detections[i].signature.items, signature.items)}

Min(S) == CHOOSE x \in S : \A y \in S : x <= y

\* A search_for_target that guesses the id of an alert that has none.
search_for_target_GuessesId(camera_id, detections, alert, now) ==
    IF "signature" \notin DOMAIN alert THEN <<>>
    ELSE IF alert.signature = PyNone THEN <<>>
    ELSE IF Matches(detections, alert.signature) = {} THEN <<>>
    ELSE LET det == detections[Min(Matches(detections, alert.signature))]
         IN  << publish_reid_match(
                    IF "global_id" \in DOMAIN alert THEN alert.global_id ELSE "T1",
                    camera_id, det.bbox, now) >>

\* A search_for_target that reports the last matching detection.
search_for_target_LastMatch(camera_id, detections, alert, now) ==
    IF "signature" \notin DOMAIN alert THEN <<>>
    ELSE IF alert.signature = PyNone THEN <<>>
    ELSE IF Matches(detections, alert.signature) = {} THEN <<>>
    ELSE LET M   == Matches(detections, alert.signature)
             det == detections[CHOOSE x \in M : \A y \in M : y <= x]
         IN  << publish_reid_match(
                    IF "global_id" \in DOMAIN alert THEN alert.global_id ELSE "unknown",
                    camera_id, det.bbox, now) >>

\* CameraNode.search_for_target: the alerts it publishes (none or one).
search_for_target(camera_id, detections, alert, now) ==
    IF "signature" \notin DOMAIN alert THEN <<>>
    ELSE IF alert.signature = PyNone THEN <<>>
    ELSE IF Matches(detections, alert.signature) = {} THEN <<>>
    ELSE LET det == detections[Min(Matches(detections, alert.signature))]
         IN  << publish_reid_match(
                    IF "global_id" \in DOMAIN alert THEN alert.global_id ELSE "unknown",
                    camera_id, det.bbox, now) >>

\* What the frame source does when polled (CameraNode._get_frame): a frame,
\* None, or an exception.
FrameOutcomes == {"frame", "none", "raise"}

\* What detect_threat and extract_features do with a frame.  detect_threat
\* is the integration point of the detector: no detection, one with a
\* bounding box, or an exception.  The extractor returns a signature or
\* raises; the
\* repository's FeatureExtractor.extract returns a numpy array, a substitute
\* one a plain list.
DetectedBoxes == {PyTuple(<<1, 2, 3, 4>>)}
DetectorRaises == [py |-> "raise", items |-> <<>>]
ExtractorRaises == [py |-> "raise", items |-> <<>>]
ExtractorResults == {PyList(<<1, 0>>), NdArray(<<1, 0>>)}
FrameContents ==
    {[detected |-> FALSE, bbox |-> PyNone, signature |-> PyNone],
     [detected |-> TRUE, bbox |-> DetectorRaises, signature |-> PyNone]}
        \cup {[detected |-> TRUE, bbox |-> b, signature |-> e] :
                b \in DetectedBoxes, e \in ExtractorResults \cup {ExtractorRaises}}

\* A CameraNode that main has not constructed yet.  now is what time.time()
\* returns to this thread next: the threads' clocks are read apart, and no
\* step compares the timestamps of two threads.  cycles and threats count the
\* passes through run()'s loop begun and the publish_threat_alert calls made.
NoCamera ==
    [pc |-> "new", stop |-> FALSE, socket |-> 0, detections |-> <<>>,
     batch |-> <<>>, msg |-> <<>>, det |-> <<>>, cycles |-> 0, threats |-> 0,
     error |-> None,
     now |-> 100]

\* CameraNode.__init__ and Thread.start: the thread is at the head of run().
CameraNodeInit(socket) == [NoCamera EXCEPT !.pc = "loop", !.socket = socket]

\* The GlobalTrackerLoop thread before start_tracker_loop.
NoTrackerLoop ==
    [pc |-> "new", stop |-> FALSE, socket |-> 0, batch |-> <<>>, msg |-> <<>>,
     caught |-> FALSE]

\* The explored runs begin MaxCycles passes through the body of run()'s loop,
\* all cameras together, and make MaxAlerts publish_* calls.
MaxCycles == 1
MaxAlerts == 4

Running == ~aborted

RECURSIVE SumOver(_, _)
SumOver(f, S) == IF S = {} THEN 0
                 ELSE LET x == CHOOSE y \in S : TRUE
                      IN  f[x] + SumOver(f, S \ {x})

\* The publish_* calls made so far: each camera has read the time once for
\* each of its own, and the tracker loop has made one for each id.
AlertsBuilt == SumOver([c \in CameraIds |-> cams[c].now - 100], CameraIds)
                 + tracker.next_id

\* The passes through the body of run()'s while loop that the cameras have
\* begun.
CyclesBegun == SumOver([c \in CameraIds |-> cams[c].cycles], CameraIds)

\* The explored runs make MaxAlerts publish_* calls at most.
MayPublish == AlertsBuilt < MaxAlerts

\* A run() that never looks at the stop flag.
CamLoop_IgnoresStop(c) ==
    /\ Running
    /\ cams[c].pc = "loop"
    /\ CyclesBegun < MaxCycles
    /\ cams' = [cams EXCEPT ![c] = [@ EXCEPT !.pc = "get_frame", !.cycles = @ + 1]]
    /\ UNCHANGED <<main, trk, raced, aborted, trackerVars, brokerVars, brokerLog>>

\* CameraNode.run: while not self._stop_event.is_set()
CamLoop(c) ==
    /\ Running
    /\ cams[c].pc = "loop"
    /\ cams[c].stop \/ CyclesBegun < MaxCycles
    /\ cams' = [cams EXCEPT ![c] = IF cams[c].stop
                                   THEN [@ EXCEPT !.pc = "done"]
                                   ELSE [@ EXCEPT !.pc = "get_frame",
                                                  !.cycles = @ + 1]]
    /\ UNCHANGED <<main, trk, raced, aborted, trackerVars, brokerVars, brokerLog>>

\* CameraNode.run: frame = self._get_frame(); no frame: sleep and loop; an
\* exception of the frame source leaves run().
CamGetFrame(c) ==
    /\ Running
    /\ cams[c].pc = "get_frame"
    /\ \E f \in FrameOutcomes :
         cams' = [cams EXCEPT ![c] =
                    CASE f = "frame" -> [@ EXCEPT !.pc = "process_frame"]
                      [] f = "none"  -> [@ EXCEPT !.pc = "loop"]
                      [] OTHER       -> [@ EXCEPT !.pc = "crashed",
                                                  !.error = "frame_source"]]
    /\ UNCHANGED <<main, trk, raced, aborted, trackerVars, brokerVars, brokerLog>>

\* CameraNode.process_frame up to the call of send_json: the buffer is
\* reset; a detection is cropped, embedded and made a NEW_THREAT alert.  An
\* exception of the detector, of the extractor, or of json.dumps on the
\* alert, leaves process_frame and run(), which have no try.
CamProcessFrame(c) ==
    /\ Running
    /\ cams[c].pc = "process_frame"
    /\ \E f \in FrameContents :
         /\ (f.detected /\ f.bbox # DetectorRaises
                        /\ f.signature # ExtractorRaises) => MayPublish
         /\ LET alert == publish_threat_alert(c, f.signature, cams[c].now) IN
            IF ~f.detected
            THEN /\ cams' = [cams EXCEPT ![c].detections = <<>>, ![c].pc = "drain"]
                 /\ UNCHANGED raced
            ELSE IF f.bbox = DetectorRaises
            THEN /\ cams' = [cams EXCEPT ![c].detections = <<>>, ![c].pc = "crashed",
                                         ![c].error = "detector"]
                 /\ UNCHANGED raced
            ELSE IF f.signature = ExtractorRaises
            THEN /\ cams' = [cams EXCEPT ![c].detections = <<>>, ![c].pc = "crashed",
                                         ![c].error = "extractor"]
                 /\ UNCHANGED raced
            ELSE IF ~JsonSerializable(alert)
            THEN /\ cams' = [cams EXCEPT ![c].detections = <<>>, ![c].pc = "crashed",
                                         ![c].error = "TypeError", ![c].now = @ + 1,
                                         ![c].threats = @ + 1]
                 /\ UNCHANGED raced
            ELSE /\ cams' = [cams EXCEPT ![c].detections = <<>>, ![c].pc = "send_threat",
                                         ![c].msg = alert, ![c].now = @ + 1,
                                         ![c].threats = @ + 1,
                                         ![c].det = [bbox |-> f.bbox,
                                                     signature |-> f.signature]]
                 /\ raced' = EnterSend(c)
    /\ UNCHANGED <<main, trk, aborted, trackerVars, brokerVars, brokerLog>>

\* libzmq aborts the process: its threads and sockets are gone.  (The
\* registry is kept as it was, for what is said about its last value.)
Abort ==
    /\ aborted' = TRUE
    /\ broker' = CommunicationBrokerInit
    /\ cams' = [c \in CameraIds |-> [NoCamera EXCEPT !.pc = "killed"]]
    /\ trk' = [NoTrackerLoop EXCEPT !.pc = "killed"]
    /\ main' = [pc |-> "killed", i |-> 0]
    /\ raced' = {}

\* CameraNode.process_frame: send_json of the NEW_THREAT returns, and the
\* detection is put in the buffer.
CamSendThreat(c) ==
    /\ Running
    /\ cams[c].pc = "send_threat"
    /\ \E o \in SendOutcomes(c) :
         IF o = "abort" THEN Abort
         ELSE /\ broker' = send_json(broker, cams[c].msg, o)
              /\ cams' = [cams EXCEPT ![c].pc = "drain",
                                      ![c].detections = Append(@, cams[c].det),
                                      ![c].msg = <<>>, ![c].det = <<>>]
              /\ raced' = raced \ {c}
              /\ UNCHANGED <<main, trk, aborted>>
    /\ UNCHANGED <<clock, trackerVars, brokerLog>>

\* CameraNode.process_frame: CommunicationBroker.drain(self.alert_queue).
\* An arrival shows only in the next drain of its socket, so the arrivals
\* since the last drain (any number of the messages on their way) and the
\* drain are one step.
CamDrain(c) ==
    /\ Running
    /\ cams[c].pc = "drain"
    /\ \E k \in 0 .. Len(broker.sockets[cams[c].socket].wire) :
         LET r == drain(arrive(broker, cams[c].socket, k), cams[c].socket) IN
         /\ broker' = r.broker
         /\ cams' = [cams EXCEPT ![c].pc = "search", ![c].batch = r.result]
    /\ UNCHANGED <<main, trk, raced, aborted, clock, trackerVars, brokerLog>>

\* CameraNode.process_frame: the for loop over the drained alerts, one
\* search_for_target each, up to the call of send_json; after the last
\* alert, sleep and loop.
CamSearch(c) ==
    /\ Running
    /\ cams[c].pc = "search"
    /\ IF cams[c].batch = <<>>
       THEN /\ cams' = [cams EXCEPT ![c].pc = "loop"]
            /\ UNCHANGED raced
       ELSE LET m == search_for_target(c, cams[c].detections,
                                       Head(cams[c].batch), cams[c].now) IN
            /\ m # <<>> => MayPublish
            /\ IF m = <<>>
               THEN /\ cams' = [cams EXCEPT ![c].batch = Tail(@)]
                    /\ UNCHANGED raced
               ELSE /\ cams' = [cams EXCEPT ![c].batch = Tail(@), ![c].msg = m[1],
                                            ![c].pc = "send_reid", ![c].now = @ + 1]
                    /\ raced' = EnterSend(c)
    /\ UNCHANGED <<main, trk, aborted, trackerVars, brokerVars, brokerLog>>

\* CameraNode.search_for_target: send_json of the REID_MATCH returns.
CamSendReid(c) ==
    /\ Running
    /\ cams[c].pc = "send_reid"
    /\ \E o \in SendOutcomes(c) :
         IF o = "abort" THEN Abort
         ELSE /\ broker' = send_json(broker, cams[c].msg, o)
              /\ cams' = [cams EXCEPT ![c].pc = "search", ![c].msg = <<>>]
              /\ raced' = raced \ {c}
              /\ UNCHANGED <<main, trk, aborted>>
    /\ UNCHANGED <<clock, trackerVars, brokerLog>>

(***************************************************************************)
(* The GlobalTracker driven through its three methods with arbitrary       *)
(* arguments.                                                              *)
(***************************************************************************)
GlobalIds == {"T0", "T1", "unknown"}

\* GlobalTracker() and CommunicationBroker() constructed, nothing called yet.
Constructed ==
    /\ tracker = GlobalTrackerInit
    /\ returned = <<>>
    /\ calls = <<>>
    /\ trajectory = <<>>
    /\ broker = CommunicationBrokerInit
    /\ clock = 100
    /\ published = <<>>
    /\ subscribedAt = <<>>
    /\ received = <<>>
    /\ sinceDrain = <<>>
    /\ main = [pc |-> "start_tracker", i |-> 0]
    /\ cams = [c \in CameraIds |-> NoCamera]
    /\ trk = NoTrackerLoop
    /\ raced = {}
    /\ aborted = FALSE

TrackerInit == Constructed

CallRegister ==
    \E c \in CameraIds, s \in Signatures, t \in Timestamps :
        LET r == register_new_threat(tracker, c, s, t) IN
        /\ Len(calls) < MaxCalls
        /\ tracker' = r.tracker
        /\ returned' = Append(returned, r.result)
        /\ calls' = Append(calls, [op |-> "register", camera_id |-> c,
                                   timestamp |-> t, result |-> r.result])
        /\ UNCHANGED <<trajectory, brokerVars, brokerLog, sysVars>>

CallReid ==
    \E g \in GlobalIds, c \in CameraIds, l \in Locations, t \in Timestamps :
        /\ Len(calls) < MaxCalls
        /\ tracker' = handle_reid_match(tracker, g, c, l, t)
        /\ calls' = Append(calls, [op |-> "reid", global_id |-> g, camera_id |-> c,
                                   location |-> l, timestamp |-> t])
        /\ UNCHANGED <<returned, trajectory, brokerVars, brokerLog, sysVars>>

CallTrajectory ==
    \E g \in GlobalIds :
        LET r == get_target_trajectory(tracker, g) IN
        /\ Len(calls) < MaxCalls
        /\ tracker' = r.tracker
        /\ trajectory' = r.result
        /\ calls' = Append(calls, [op |-> "trajectory", global_id |-> g,
                                   known |-> g \in DOMAIN tracker.targets])
        /\ UNCHANGED <<returned, brokerVars, brokerLog, sysVars>>

TrackerNext == CallRegister \/ CallReid \/ CallTrajectory

SpecTracker == TrackerInit /\ [][TrackerNext]_vars

(***************************************************************************)
(* The CommunicationBroker driven by one client thread: subscribe,         *)
(* publish_* and drain in any order, with ZeroMQ's background steps in     *)
(* between.                                                                *)
(***************************************************************************)
MaxSubs == 2
MaxPublish == 2

SubIds == 1 .. Len(broker.sockets)

\* The client's n-th publish call, made at time t: the three publish_*
\* methods in turn.
PublishCall(n, t) ==
    CASE n % 3 = 1 -> publish_threat_alert("camera_0", PyList(<<1, 0>>), t)
      [] n % 3 = 2 -> publish_reid_match("T0", "camera_1", PyTuple(<<1, 2, 3, 4>>), t)
      [] OTHER     -> publish_id_assignment("T0", "camera_0", PyList(<<1, 0>>), t)

BrokerInit == Constructed

BSubscribe ==
    LET r == subscribe(broker) IN
    /\ Len(broker.sockets) < MaxSubs
    /\ broker' = r.broker
    /\ subscribedAt' = Append(subscribedAt, Len(published))
    /\ received' = Append(received, <<>>)
    /\ sinceDrain' = Append(sinceDrain, [drained |-> FALSE, published |-> FALSE, arrived |-> FALSE])
    /\ UNCHANGED <<clock, published, trackerVars, sysVars>>

BConnect ==
    \E s \in SubIds :
        /\ ~broker.sockets[s].connected
        /\ broker' = connect(broker, s)
        /\ UNCHANGED <<clock, brokerLog, trackerVars, sysVars>>

BPublish ==
    LET alert == PublishCall(Len(published) + 1, clock) IN
    /\ Len(published) < MaxPublish
    /\ JsonSerializable(alert)
    /\ broker' = broadcast(broker, alert)
    /\ clock' = clock + 1
    /\ published' = Append(published, JsonDecode(JsonEncode(alert)))
    /\ sinceDrain' = [s \in DOMAIN sinceDrain |->
                        [sinceDrain[s] EXCEPT !.published = TRUE]]
    /\ UNCHANGED <<subscribedAt, received, trackerVars, sysVars>>

BDeliver ==
    \E s \in SubIds :
        /\ broker.sockets[s].wire # <<>>
        /\ broker' = deliver(broker, s)
        /\ sinceDrain' = [sinceDrain EXCEPT ![s].arrived = TRUE]
        /\ UNCHANGED <<clock, published, subscribedAt, received, trackerVars, sysVars>>

DrainCall(s) ==
    LET r == drain(broker, s) IN
    /\ broker' = r.broker
    /\ received' = [received EXCEPT ![s] = @ \o r.result]
    /\ sinceDrain' = [sinceDrain EXCEPT ![s] =
                        [drained |-> TRUE, published |-> FALSE, arrived |-> FALSE]]
    /\ UNCHANGED <<clock, published, subscribedAt, trackerVars, sysVars>>

BDrain == \E s \in SubIds : DrainCall(s)

BrokerNext == BSubscribe \/ BConnect \/ BPublish \/ BDeliver \/ BDrain

SpecBroker == BrokerInit /\ [][BrokerNext]_vars

(***************************************************************************)
(* orchestrator.py                                                         *)
(***************************************************************************)
\* The keys the tracker loop subscripts in an alert of each type.
RequiredKeys(type) ==
    CASE type = "NEW_THREAT" -> {"camera_id", "signature", "timestamp"}
      [] type = "REID_MATCH" -> {"global_id", "camera_id", "timestamp"}
      [] OTHER               -> {}

\* alert["type"] and the subscripts of its branch raise no KeyError.
NoKeyError(alert) ==
    /\ "type" \in DOMAIN alert
    /\ RequiredKeys(alert.type) \subseteq DOMAIN alert

\* alert.get("location")
GetLocation(alert) == IF "location" \in DOMAIN alert THEN alert.location ELSE PyNone

\* start_tracker_loop.loop: while not stop_event.is_set()
TrkLoop ==
    /\ Running
    /\ trk.pc = "loop"
    /\ trk' = [trk EXCEPT !.pc = IF trk.stop THEN "done" ELSE "drain"]
    /\ UNCHANGED <<main, cams, raced, aborted, trackerVars,
                   brokerVars, brokerLog>>

\* start_tracker_loop.loop: CommunicationBroker.drain(queue), with the
\* arrivals since the last drain.
TrkDrain ==
    /\ Running
    /\ trk.pc = "drain"
    /\ \E k \in 0 .. Len(broker.sockets[trk.socket].wire) :
         LET r == drain(arrive(broker, trk.socket, k), trk.socket) IN
         /\ broker' = r.broker
         /\ trk' = [trk EXCEPT !.pc = "for", !.batch = r.result]
    /\ UNCHANGED <<main, cams, raced, aborted, clock, trackerVars, brokerLog>>

\* start_tracker_loop.loop: the KeyError of an alert leaves the for loop,
\* which is inside the try, and what was drained after it is dropped.
TrkAfterKeyError(batch) == [pc |-> "loop", batch |-> <<>>]

\* A loop that takes the GLOBAL_ID_ASSIGN alerts for new threats too.
TrkBranch_AssignAsThreat(alert) ==
    IF alert.type \in {"NEW_THREAT", "GLOBAL_ID_ASSIGN"} THEN "register"
    ELSE IF alert.type = "REID_MATCH" THEN "reid"
    ELSE "skip"

\* start_tracker_loop.loop: the if/elif on alert["type"].
TrkBranch(alert) ==
    IF alert.type = "NEW_THREAT" THEN "register"
    ELSE IF alert.type = "REID_MATCH" THEN "reid"
    ELSE "skip"

\* start_tracker_loop.loop: the for loop over the drained alerts, one alert
\* each step, up to the call of send_json; after the last alert, or an
\* exception, sleep and loop.
TrkFor ==
    /\ Running
    /\ trk.pc = "for"
    /\ IF trk.batch = <<>>
       THEN /\ trk' = [trk EXCEPT !.pc = "loop"]
            /\ UNCHANGED <<tracker, returned, raced>>
       ELSE LET alert == Head(trk.batch) IN
            /\ (NoKeyError(alert) /\ TrkBranch(alert) = "register") => MayPublish
            /\ IF ~NoKeyError(alert)
               THEN /\ trk' = [trk EXCEPT !.pc = TrkAfterKeyError(trk.batch).pc,
                                          !.batch = TrkAfterKeyError(trk.batch).batch,
                                          !.caught = TRUE]
                    /\ UNCHANGED <<tracker, returned, raced>>
               ELSE IF TrkBranch(alert) = "register"
               THEN LET r == register_new_threat(tracker, alert.camera_id,
                                                 alert.signature, alert.timestamp)
                    IN  /\ tracker' = r.tracker
                        /\ returned' = Append(returned, r.result)
                        /\ trk' = [trk EXCEPT
                                     !.batch = Tail(@),
                                     !.pc = "send_assign",
                                     !.msg = publish_id_assignment(
                                                 r.result, alert.camera_id,
                                                 alert.signature, alert.timestamp)]
                        /\ raced' = EnterSend("tracker")
               ELSE IF TrkBranch(alert) = "reid"
               THEN /\ tracker' = handle_reid_match(tracker, alert.global_id,
                                                    alert.camera_id, GetLocation(alert),
                                                    alert.timestamp)
                    /\ trk' = [trk EXCEPT !.batch = Tail(@)]
                    /\ UNCHANGED <<returned, raced>>
               ELSE /\ trk' = [trk EXCEPT !.batch = Tail(@)]
                    /\ UNCHANGED <<tracker, returned, raced>>
    /\ UNCHANGED <<main, cams, aborted, calls, trajectory, brokerVars, brokerLog>>

\* start_tracker_loop.loop: send_json of the GLOBAL_ID_ASSIGN returns.
TrkSendAssign ==
    /\ Running
    /\ trk.pc = "send_assign"
    /\ \E o \in SendOutcomes("tracker") :
         IF o = "abort" THEN Abort
         ELSE /\ broker' = send_json(broker, trk.msg, o)
              /\ trk' = [trk EXCEPT !.pc = "for", !.msg = <<>>]
              /\ raced' = raced \ {"tracker"}
              /\ UNCHANGED <<main, cams, aborted>>
    /\ UNCHANGED <<clock, trackerVars, brokerLog>>

\* start_tracker_loop: queue = broker.subscribe(); thread.start()
MainStartTracker ==
    LET r == subscribe(broker) IN
    /\ Running
    /\ main.pc = "start_tracker"
    /\ broker' = r.broker
    /\ trk' = [trk EXCEPT !.pc = "loop", !.socket = r.result]
    /\ main' = [pc |-> "start_cameras", i |-> 0]
    /\ UNCHANGED <<cams, raced, aborted, clock, trackerVars, brokerLog>>

\* main: node = CameraNode(f"camera_{i}", broker, ...); node.start()
MainStartCamera ==
    LET r == subscribe(broker) IN
    /\ Running
    /\ main.pc = "start_cameras"
    /\ broker' = r.broker
    /\ cams' = [cams EXCEPT ![CameraName(main.i)] = CameraNodeInit(r.result)]
    /\ main' = IF main.i + 1 < NumCameras
               THEN [main EXCEPT !.i = @ + 1]
               ELSE [pc |-> "running", i |-> 0]
    /\ UNCHANGED <<trk, raced, aborted, clock, trackerVars, brokerLog>>

\* main: KeyboardInterrupt in the wait loop; the finally block begins.
MainInterrupt ==
    /\ Running
    /\ main.pc = "running"
    /\ main' = [pc |-> "stop_cameras", i |-> 0]
    /\ UNCHANGED <<cams, trk, raced, aborted, trackerVars,
                   brokerVars, brokerLog>>

\* main: cam.stop(); cam.join(timeout=2), which returns when the thread has
\* ended or the two seconds have passed.
MainStopCamera ==
    /\ Running
    /\ main.pc = "stop_cameras"
    /\ cams' = [cams EXCEPT ![CameraName(main.i)].stop = TRUE]
    /\ main' = IF main.i + 1 < NumCameras
               THEN [main EXCEPT !.i = @ + 1]
               ELSE [pc |-> "stop_tracker", i |-> 0]
    /\ UNCHANGED <<trk, raced, aborted, trackerVars, brokerVars,
                   brokerLog>>

\* main: tracker_stop.set(); tracker_thread.join(timeout=2)
MainStopTracker ==
    /\ Running
    /\ main.pc = "stop_tracker"
    /\ trk' = [trk EXCEPT !.stop = TRUE]
    /\ main' = [pc |-> "exit", i |-> 0]
    /\ UNCHANGED <<cams, raced, aborted, trackerVars, brokerVars,
                   brokerLog>>

\* ZeroMQ in the background: a SUB socket's connection is made.
Connect ==
    \E s \in 1 .. Len(broker.sockets) :
        /\ Running
        /\ ~broker.sockets[s].connected
        /\ broker' = connect(broker, s)
        /\ UNCHANGED <<clock, brokerLog, trackerVars, sysVars>>

(***************************************************************************)
(* The running system: orchestrator.main, the tracker loop and the camera  *)
(* threads over one broker.                                                *)
(***************************************************************************)
Init == Constructed

Next ==
    \/ MainStartTracker
    \/ MainStartCamera
    \/ Connect
    \/ TrkLoop
    \/ TrkDrain
    \/ TrkFor
    \/ TrkSendAssign
    \/ \E c \in CameraIds : CamLoop(c)
    \/ \E c \in CameraIds : CamGetFrame(c)
    \/ \E c \in CameraIds : CamProcessFrame(c)
    \/ \E c \in CameraIds : CamSendThreat(c)
    \/ \E c \in CameraIds : CamDrain(c)
    \/ \E c \in CameraIds : CamSearch(c)
    \/ \E c \in CameraIds : CamSendReid(c)

Spec == Init /\ [][Next]_vars

\* The same with main's shutdown (KeyboardInterrupt and the finally block).
ShutdownNext == Next \/ MainInterrupt \/ MainStopCamera \/ MainStopTracker

\* The next step of camera thread c, and of the tracker thread.
CamStep(c) ==
    \/ CamLoop(c)
    \/ CamGetFrame(c)
    \/ CamProcessFrame(c)
    \/ CamSendThreat(c)
    \/ CamDrain(c)
    \/ CamSearch(c)
    \/ CamSendReid(c)

TrkStep == TrkLoop \/ TrkDrain \/ TrkFor \/ TrkSendAssign

\* The threads are scheduled: a thread that can take a step takes one.  (The
\* calls of the frame source, the detector and the extractor return or
\* raise; time.sleep returns.)  Nothing is assumed of main or of ZeroMQ's
\* connecting.
SpecShutdown ==
    /\ Init
    /\ [][ShutdownNext]_vars
    /\ \A c \in CameraIds : WF_vars(CamStep(c))
    /\ WF_vars(TrkStep)

(***************************************************************************)
(* The tracker loop alone over the broker, fed by a producer that hands    *)
(* alerts of its own making to CommunicationBroker._broadcast: alerts as   *)
(* publish_* builds them, and one with a required field missing.           *)
(***************************************************************************)
MaxInject == 3

\* A REID_MATCH without its global_id.
MalformedAlert(t) == [type |-> "REID_MATCH", camera_id |-> "camera_1", timestamp |-> t]

ProducedAlerts(t) ==
    {publish_threat_alert("camera_0", PyList(<<1, 0>>), t),
     publish_reid_match("T0", "camera_1", PyTuple(<<1, 2, 3, 4>>), t),
     MalformedAlert(t)}

\* broker._broadcast(alert) by the producer, while no other thread is in
\* send_json.
ProducerBroadcast ==
    \E alert \in ProducedAlerts(clock) :
        /\ Running
        /\ trk.pc # "new"
        /\ InSend = {}
        /\ Len(published) < MaxInject
        /\ broker' = broadcast(broker, alert)
        /\ clock' = clock + 1
        /\ published' = Append(published, JsonDecode(JsonEncode(alert)))
        /\ UNCHANGED <<subscribedAt, received, sinceDrain, trackerVars, sysVars>>

LoopInit == Constructed

LoopNext ==
    \/ MainStartTracker
    \/ Connect
    \/ ProducerBroadcast
    \/ TrkLoop
    \/ TrkDrain
    \/ TrkFor
    \/ TrkSendAssign

SpecLoop == LoopInit /\ [][LoopNext]_vars

(***************************************************************************)
(* search_for_target alone: camera_0 stands in process_frame's for loop    *)
(* with any detection buffer and any drained alerts.                       *)
(***************************************************************************)
MaxDetections == 2

\* Buffered detections: bounding boxes with signatures alike and unlike.
BufferedDetections ==
    {[bbox |-> PyTuple(<<1, 2, 3, 4>>), signature |-> PyList(<<1, 0>>)],
     [bbox |-> PyTuple(<<5, 6, 7, 8>>), signature |-> PyList(<<3, 1>>)],
     [bbox |-> PyTuple(<<0, 0, 9, 9>>), signature |-> PyList(<<0, 1>>)]}

RECURSIVE SeqsUpTo(_, _)
SeqsUpTo(S, n) ==
    IF n = 0 THEN {<<>>}
    ELSE SeqsUpTo(S, n - 1)
           \cup {Append(q, x) : q \in {r \in SeqsUpTo(S, n - 1) : Len(r) = n - 1},
                                x \in S}

\* Alerts as drain returns them: of each type, and one whose signature is None.
DrainedAlerts ==
    {JsonDecode(JsonEncode(a)) :
        a \in {publish_threat_alert("camera_1", PyList(<<1, 0>>), 100),
               publish_threat_alert("camera_0", PyList(<<0, 1>>), 100),
               publish_threat_alert("camera_1", PyNone, 100),
               publish_id_assignment("T0", "camera_1", PyList(<<1, 0>>), 100),
               publish_reid_match("T0", "camera_1", PyTuple(<<1, 2, 3, 4>>), 100)}}

SearchInit ==
    /\ tracker = GlobalTrackerInit
    /\ returned = <<>>
    /\ calls = <<>>
    /\ trajectory = <<>>
    /\ broker = subscribe(CommunicationBrokerInit).broker
    /\ clock = 100
    /\ published = <<>>
    /\ subscribedAt = <<>>
    /\ received = <<>>
    /\ sinceDrain = <<>>
    /\ main = [pc |-> "running", i |-> 0]
    /\ \E d \in SeqsUpTo(BufferedDetections, MaxDetections),
          b \in SeqsUpTo(DrainedAlerts, 2) \ {<<>>} :
          cams = [c \in CameraIds |->
                    IF c = "camera_0"
                    THEN [CameraNodeInit(1) EXCEPT !.pc = "search",
                                                   !.detections = d, !.batch = b]
                    ELSE NoCamera]
    /\ trk = NoTrackerLoop
    /\ raced = {}
    /\ aborted = FALSE

SearchNext ==
    \/ \E c \in CameraIds : CamSearch(c)
    \/ \E c \in CameraIds : CamSendReid(c)

SpecSearch == SearchInit /\ [][SearchNext]_vars

(***************************************************************************)
(* Properties.                                                             *)
(***************************************************************************)
IsPrefix(a, b) == Len(a) <= Len(b) /\ SubSeq(b, 1, Len(a)) = a

IdNumbers == 0 .. 32
\* int(global_id[1:])
IdNumber(g) == CHOOSE n \in IdNumbers : FormatId(n) = g

\* What is still to come out of socket s: arrived, then on its way.
Pending(s) == DecodeAll(broker.sockets[s].queue) \o DecodeAll(broker.sockets[s].wire)

Count(x, seq) == Cardinality({i \in 1 .. Len(seq) : seq[i] = x})

\* The place of an alert in the publish order (timestamps are the clock's).
PublishIndex(alert) == CHOOSE n \in 1 .. Len(published) : published[n] = alert

\* C1: of the alerts published after subscribe() returned, each has been
\* returned by the socket's drains exactly once or is still to come (so that
\* further drains can return it), the drains returned them in publish order,
\* and no drain returned an alert published before the subscription.
C1_DeliveredOnceInOrder ==
    \A s \in SubIds :
        /\ \A n \in 1 .. Len(published) :
              n > subscribedAt[s]
                => Count(published[n], received[s] \o Pending(s)) = 1
        /\ \A i, j \in 1 .. Len(received[s]) :
              i < j => PublishIndex(received[s][i]) < PublishIndex(received[s][j])
        /\ \A n \in 1 .. Len(published) :
              n <= subscribedAt[s] => Count(published[n], received[s]) = 0

\* C2: a publish adds one copy of the alert to what every subscription has
\* pending, and a drain of one subscription changes neither what another
\* has pending nor what it has received.
C2_CopyToEachAndDrainFrame ==
    [][/\ Len(published') = Len(published) + 1
          => \A s \in SubIds :
                Pending(s)' = Append(Pending(s), published'[Len(published')])
       /\ \A s \in SubIds :
            DrainCall(s)
              => \A o \in SubIds \ {s} :
                    Pending(o)' = Pending(o) /\ received'[o] = received[o]]_vars

\* The frame part of C2 alone.
DrainLeavesOthers ==
    [][\A s \in SubIds :
          DrainCall(s)
            => \A o \in SubIds \ {s} :
                  Pending(o)' = Pending(o) /\ received'[o] = received[o]]_vars

\* C3 as amended: drain can always be called and returns; it returns the
\* alerts that have arrived in the socket's queue, oldest first, and leaves
\* the queue empty (so the empty list when nothing has arrived); a second
\* drain with no publish and no arrival in between returns the empty list.
C3_DrainReturnsArrived ==
    /\ [](\A s \in SubIds : ENABLED DrainCall(s))
    /\ [][\A s \in SubIds :
            DrainCall(s)
              => /\ received'[s] = received[s] \o DecodeAll(broker.sockets[s].queue)
                 /\ broker'.sockets[s].queue = <<>>
                 /\ (/\ sinceDrain[s].drained
                     /\ ~sinceDrain[s].published
                     /\ ~sinceDrain[s].arrived)
                       => received'[s] = received[s]]_vars

\* C3 as stated: a second drain with no publish in between returns the
\* empty list.
C3_SecondDrainEmpty ==
    [][\A s \in SubIds :
          DrainCall(s)
            => /\ received'[s] = received[s] \o DecodeAll(broker.sockets[s].queue)
               /\ broker'.sockets[s].queue = <<>>
               /\ (sinceDrain[s].drained /\ ~sinceDrain[s].published)
                     => received'[s] = received[s]]_vars

\* A drain has just returned, after an earlier drain of the same socket, and
\* the drains of that socket returned two alerts or more.
C3_Witness ==
    \E s \in SubIds :
        /\ sinceDrain[s].drained
        /\ ~sinceDrain[s].published
        /\ ~sinceDrain[s].arrived
        /\ Len(received[s]) >= 2
        /\ broker.sockets[s].queue = <<>>

\* C4: the ids returned by register_new_threat are pairwise distinct, never
\* reused, and strictly increasing in call order: the k-th call returns
\* "T<k-1>", whatever handle_reid_match calls come in between.
C4_IdsDistinctIncreasing ==
    /\ \A i \in 1 .. Len(returned) : IdNumber(returned[i]) = i - 1
    /\ \A i, j \in 1 .. Len(returned) :
          i < j => /\ returned[i] # returned[j]
                   /\ IdNumber(returned[i]) < IdNumber(returned[j])

C4_Witness ==
    /\ Len(returned) >= 2
    /\ \E i \in 1 .. Len(calls) : calls[i].op = "reid"

\* C7: every operation leaves each target in the registry and its history
\* before the operation is a prefix of its history afterwards.
C7_HistoryAppendOnly ==
    [][\A g \in DOMAIN tracker.targets :
          /\ g \in DOMAIN tracker'.targets
          /\ IsPrefix(tracker.targets[g].history, tracker'.targets[g].history)]_vars

\* C9: get_target_trajectory of an id without TargetState returns the empty
\* list and creates no entry; on a fresh tracker, after register_new_threat
\* returned g and one handle_reid_match for g, get_target_trajectory(g)
\* returns the two entries in arrival order.
C9_Trajectory ==
    /\ (/\ Len(calls) > 0
        /\ calls[Len(calls)].op = "trajectory"
        /\ ~calls[Len(calls)].known)
          => /\ trajectory = <<>>
             /\ calls[Len(calls)].global_id \notin DOMAIN tracker.targets
    /\ (/\ Len(calls) = 3
        /\ calls[1].op = "register"
        /\ calls[2].op = "reid"
        /\ calls[2].global_id = calls[1].result
        /\ calls[3].op = "trajectory"
        /\ calls[3].global_id = calls[1].result)
          => trajectory = << [camera_id |-> calls[1].camera_id,
                              timestamp |-> calls[1].timestamp],
                             [camera_id |-> calls[2].camera_id,
                              location  |-> calls[2].location,
                              timestamp |-> calls[2].timestamp] >>

C9_Witness ==
    /\ Len(calls) = 3
    /\ calls[1].op = "register"
    /\ calls[2].op = "reid"
    /\ calls[2].global_id = calls[1].result
    /\ calls[3].op = "trajectory"
    /\ calls[3].global_id = calls[1].result
    /\ calls[2].timestamp < calls[1].timestamp
    /\ Len(trajectory) = 2

\* An alert the tracker loop has a branch for, with every key the branch
\* subscripts.
WellFormed(alert) ==
    /\ NoKeyError(alert)
    /\ alert.type \in {"NEW_THREAT", "REID_MATCH"}

\* C5: the tracker loop takes the drained alerts one by one; an alert with a
\* required field missing is skipped (the registry is left as it was, the
\* loop goes on), and the alerts drained after the one taken, well-formed
\* ones among them, are all still to be processed.
C5_MalformedSkippedRestProcessed ==
    [][(TrkFor /\ trk.batch # <<>>)
         => /\ trk'.pc \in {"for", "send_assign", "loop"}
            /\ SelectSeq(trk'.batch, WellFormed)
                 = SelectSeq(Tail(trk.batch), WellFormed)
            /\ ~WellFormed(Head(trk.batch)) => tracker' = tracker]_vars

\* C6: a camera thread whose detector or feature extractor raised while it
\* processed a frame has not left run(): it is still running.
C6_FaultCaughtInCycle ==
    \A c \in CameraIds :
        cams[c].error \in {"detector", "extractor"} => cams[c].pc # "crashed"

\* The ids register_new_threat has returned.
ReturnedIds == {returned[i] : i \in 1 .. Len(returned)}

\* C8 as amended: every id returned by register_new_threat has a TargetState,
\* and every key of the registry is a returned id or "unknown", the id of
\* the placeholder entry made for a REID_MATCH that a camera published on an
\* alert without global_id.
C8_RegistryKeys ==
    /\ ReturnedIds \subseteq DOMAIN tracker.targets
    /\ DOMAIN tracker.targets \subseteq ReturnedIds \cup {"unknown"}

\* C8 as stated: the keys of the registry are exactly the returned ids.
C8_RegistryIffRegistered == DOMAIN tracker.targets = ReturnedIds

\* The tracker loop has registered a threat and has handled a REID_MATCH
\* that names no registered id.
C8_Witness ==
    /\ Len(returned) >= 1
    /\ "unknown" \in DOMAIN tracker.targets
    /\ Len(tracker.targets["unknown"].history) >= 1

\* C10: at no time are two threads inside send_json on the PUB socket.
C10_SendsSerialised == Cardinality(InSend) <= 1

\* A thread that has ended: run() returned, an exception left it, or the
\* process was aborted.
Ended == {"done", "crashed", "killed"}

\* A thread stands before a publish that would be one more than MaxAlerts:
\* the run is cut off there.
CutOff ==
    \/ \E c \in CameraIds : cams[c].pc = "search" /\ ~ENABLED CamSearch(c)
    \/ trk.pc = "for" /\ ~ENABLED TrkFor

\* C11: a camera (the tracker loop) that finds its stop flag set at the head
\* of its loop begins no further cycle; once the flag is set its loop ends;
\* and once main has stopped the cameras and the tracker, every worker
\* thread ends.
C11_StopEndsWorkers ==
    /\ [][/\ \A c \in CameraIds :
               (cams[c].pc = "loop" /\ cams[c].stop) => cams'[c].pc \in {"loop", "done", "killed"}
          /\ (trk.pc = "loop" /\ trk.stop) => trk'.pc \in {"loop", "done", "killed"}]_vars
    /\ \A c \in CameraIds : cams[c].stop ~> (cams[c].pc \in Ended \/ CutOff)
    /\ trk.stop ~> (trk.pc \in Ended \/ CutOff)
    /\ (main.pc = "exit")
          ~> ((trk.pc \in Ended /\ \A c \in CameraIds : cams[c].pc \in Ended) \/ CutOff)

\* main has gone through its finally block, a camera that had begun a cycle
\* and the tracker loop have returned from their loops, and no run was cut
\* off.
C11_Witness ==
    /\ main.pc = "exit"
    /\ trk.pc = "done"
    /\ \A c \in CameraIds : cams[c].pc \in Ended
    /\ \E c \in CameraIds : cams[c].pc = "done" /\ cams[c].cycles >= 1
    /\ ~CutOff

\* The cosine of two integer vectors exceeds 0.85.
Similar(a, b) ==
    /\ Dot(a, b) > 0
    /\ 10000 * Dot(a, b) * Dot(a, b) > 7225 * Dot(a, a) * Dot(b, b)

\* C12: for an alert taken from the drained batch the camera makes no
\* publish_reid_match call if its buffer is empty, the alert has no signature
\* or no buffered detection is similar to it; otherwise it makes one, with
\* the bbox of the first similar detection, its own camera_id and the
\* alert's global_id, or "unknown" if the alert has none.
C12_OneReidPerAlert ==
    [][\A c \in CameraIds :
          (CamSearch(c) /\ cams[c].batch # <<>>)
            => LET alert == Head(cams[c].batch)
                   buf   == cams[c].detections
                   hits  == IF "signature" \in DOMAIN alert /\ alert.signature # PyNone
                            THEN {i \in 1 .. Len(buf) :
                                    Similar(buf[i].signature.items, alert.signature.items)}
                            ELSE {}
               IN  IF hits = {}
                   THEN cams'[c].pc = "search" /\ cams'[c].msg = <<>>
                   ELSE /\ cams'[c].pc = "send_reid"
                        /\ cams'[c].msg.type = "REID_MATCH"
                        /\ cams'[c].msg.camera_id = c
                        /\ \E i \in hits :
                              /\ \A j \in hits : i <= j
                              /\ cams'[c].msg.location = buf[i].bbox
                        /\ cams'[c].msg.global_id
                             = (IF "global_id" \in DOMAIN alert
                                THEN alert.global_id ELSE "unknown")]_vars

\* The camera has made its publish_reid_match call with the bbox of the first
\* of two buffered detections that are similar to each other and have
\* different boxes.
C12_Witness ==
    LET n == cams["camera_0"] IN
    /\ n.pc = "send_reid"
    /\ Len(n.detections) >= 2
    /\ n.detections[1].bbox # n.detections[2].bbox
    /\ Similar(n.detections[1].signature.items, n.detections[2].signature.items)
    /\ n.msg.location = n.detections[1].bbox

\* C13: a camera makes no publish_reid_match call for a drained alert whose
\* camera_id is its own.
C13_NoReidForOwnAlert ==
    [][\A c \in CameraIds :
          (/\ CamSearch(c)
           /\ cams[c].batch # <<>>
           /\ Head(cams[c].batch).camera_id = c)
            => cams'[c].pc # "send_reid"]_vars

\* The alerts in the broker's sockets, on their way or arrived.
InSockets ==
    UNION {{JsonDecode(broker.sockets[s].wire[i]) :
                i \in 1 .. Len(broker.sockets[s].wire)}
             \cup {JsonDecode(broker.sockets[s].queue[i]) :
                     i \in 1 .. Len(broker.sockets[s].queue)} :
           s \in 1 .. Len(broker.sockets)}

\* C14: the tracker loop's step on a NEW_THREAT stores, under an id new to
\* the registry, a TargetState with the alert's camera as current_camera and
\* the one history entry {camera_id, timestamp}, and comes to the one
\* publish_id_assignment call with that id and the alert's camera_id,
\* signature and timestamp, after which it takes the next alert; every
\* GLOBAL_ID_ASSIGN held by the loop or by a socket names an id in the
\* registry.
C14_StoreThenAssign ==
    /\ [][(/\ TrkFor
           /\ trk.batch # <<>>
           /\ NoKeyError(Head(trk.batch))
           /\ Head(trk.batch).type = "NEW_THREAT")
            => LET alert == Head(trk.batch)
                   gid   == returned'[Len(returned')]
               IN  /\ Len(returned') = Len(returned) + 1
                   /\ gid \notin DOMAIN tracker.targets
                   /\ gid \in DOMAIN tracker'.targets
                   /\ tracker'.targets[gid].global_id = gid
                   /\ tracker'.targets[gid].current_camera = alert.camera_id
                   /\ tracker'.targets[gid].history
                        = << [camera_id |-> alert.camera_id,
                              timestamp |-> alert.timestamp] >>
                   /\ trk'.pc = "send_assign"
                   /\ trk'.msg = [type |-> "GLOBAL_ID_ASSIGN", global_id |-> gid,
                                  camera_id |-> alert.camera_id,
                                  signature |-> alert.signature,
                                  timestamp |-> alert.timestamp]
                   /\ trk'.batch = Tail(trk.batch)]_vars
    /\ [][trk.pc = "send_assign" => trk'.pc \in {"send_assign", "for", "killed"}]_vars
    /\ [](trk.pc = "send_assign" => trk.msg.global_id \in DOMAIN tracker.targets)
    /\ [](\A a \in InSockets :
             a.type = "GLOBAL_ID_ASSIGN" => a.global_id \in DOMAIN tracker.targets)

\* A GLOBAL_ID_ASSIGN has left the tracker loop and is in a socket.
C14_Witness ==
    /\ returned # <<>>
    /\ \E a \in InSockets : a.type = "GLOBAL_ID_ASSIGN" /\ a.global_id = returned[1]

\* C15: handle_reid_match of an id without TargetState stores one under that
\* id, with the match's camera as current_camera and the one history entry
\* {camera_id, location, timestamp}; the other TargetStates and the id
\* counter are as before.
C15_ReidOfUnknownId ==
    [][(Len(calls') = Len(calls) + 1 /\ calls'[Len(calls')].op = "reid")
         => LET call == calls'[Len(calls')]
                g    == call.global_id
            IN  g \notin DOMAIN tracker.targets
                  => /\ DOMAIN tracker'.targets = DOMAIN tracker.targets \cup {g}
                     /\ tracker'.targets[g]
                          = [global_id |-> g,
                             current_camera |-> call.camera_id,
                             history |-> << [camera_id |-> call.camera_id,
                                             location  |-> call.location,
                                             timestamp |-> call.timestamp] >>]
                     /\ \A h \in DOMAIN tracker.targets :
                           tracker'.targets[h] = tracker.targets[h]
                     /\ tracker'.next_id = tracker.next_id]_vars

\* A TargetState that handle_reid_match created stands beside another one.
C15_Witness ==
    /\ Len(calls) > 0
    /\ calls[Len(calls)].op = "reid"
    /\ \E g \in DOMAIN tracker.targets :
          /\ g = calls[Len(calls)].global_id
          /\ Len(tracker.targets[g].history) = 1
          /\ "location" \in DOMAIN tracker.targets[g].history[1]
    /\ Cardinality(DOMAIN tracker.targets) >= 2

\* C16: a camera thread whose frame source raised has caught the exception
\* and is at the head of its loop or has returned from run(): the exception
\* has not left run().
C16_FrameSourceFaultCaught ==
    \A c \in CameraIds :
        cams[c].error = "frame_source" => cams[c].pc \in {"loop", "done"}

\* The other half of C16: the step in which a frame source raises changes
\* nothing but that camera's thread.
FrameSourceFaultIsLocal ==
    [][\A c \in CameraIds :
          (cams[c].error # "frame_source" /\ cams'[c].error = "frame_source")
            => /\ \A o \in CameraIds \ {c} : cams'[o] = cams[o]
               /\ UNCHANGED <<trk, main, aborted, broker, tracker>>]_vars

\* C17: a camera drains its subscription in every cycle, whatever the frame
\* source returned: it does not come back from the poll of the frame source
\* to the head of its loop without a drain.
C17_DrainInEveryCycle ==
    [][\A c \in CameraIds :
          cams[c].pc = "get_frame" => cams'[c].pc # "loop"]_vars

\* C18: every TargetState of the registry has a history that is not empty,
\* is stored under its own global_id, and has as current_camera the
\* camera_id of its last history entry.
C18_TargetStateWellFormed ==
    \A g \in DOMAIN tracker.targets :
        LET t == tracker.targets[g] IN
        /\ t.history # <<>>
        /\ t.global_id = g
        /\ t.current_camera = t.history[Len(t.history)].camera_id

\* Two targets, one of them seen by one camera and then by another.
C18_Witness ==
    /\ Cardinality(DOMAIN tracker.targets) >= 2
    /\ \E g \in DOMAIN tracker.targets :
          LET h == tracker.targets[g].history IN
          /\ Len(h) >= 2
          /\ h[1].camera_id # h[Len(h)].camera_id

\* The publish_threat_alert calls of all cameras, and the publish_reid_match
\* calls of camera c.
ThreatsBuilt == SumOver([c \in CameraIds |-> cams[c].threats], CameraIds)
ReidsBuilt(c) == cams[c].now - 100 - cams[c].threats

====
